---- MODULE Spec2Model ----
(***************************************************************************)
(* A model of crawl_site_to_markdown (src/web-crawling.py): the frontier   *)
(* to_visit, the visited set, the title index, the robots gate, the        *)
(* checkpoint file and the interrupt flag, over successive runs that share *)
(* one output directory.                                                   *)
(***************************************************************************)
EXTENDS Integers, Sequences, FiniteSets, TLC

VARIABLES
    pc,                 \* position of the process in crawl_site_to_markdown
    args,               \* start_url, max_pages, save_every, resume of the current run
    robots_parser,      \* the robots policy object, or absent (None)
    to_visit,           \* the frontier: a list of URL strings
    visited,            \* the visited set
    discovered_titles,  \* the title index: URL -> title text
    shutdown,           \* shutdown['flag']
    pages_done,         \* pages completed in this run
    url,                \* the loop variable while its URL is in progress, else None
    checkpoint,         \* the checkpoint file on disk
    runs,               \* number of runs started so far
    fetched,            \* history: URLs requested by the page fetch in this run
    written,            \* history: URLs whose page document this run wrote
    dequeued,           \* history: URL -> number of times this run dequeued it
    visited0,           \* history: the visited set at the start of this run
    saved,              \* history: the in-memory state at the last successful save
    resumed,            \* history: this run restored its state from the checkpoint
    final_save,         \* history: this run called _save_state after the loop
    link_denied,        \* history: the link targets the robots gate denied on the page in progress
    docs,               \* history: local path -> the document this run last wrote there
    index_writes,       \* history: number of times this run wrote the index document
    candidates,         \* history: the URLs that reached line 313 on the page in progress, in document order
    offsite,            \* history: the link targets of the page in progress that line 295 turned away
    target,             \* the URL given to the path functions, as the lengths of its parts
    local_path,         \* the local path derived for target, as the lengths of its components
    inherited,          \* history: the URLs whose page document the runs this run was resumed from wrote
    ckpt_pages          \* history: the URLs whose page document was written by the run that saved the checkpoint, or by the runs it was resumed from

vars == <<pc, args, robots_parser, to_visit, visited, discovered_titles, shutdown,
          pages_done, url, checkpoint, runs, fetched, written, dequeued,
          visited0, saved, resumed, final_save, link_denied, docs, index_writes,
          candidates, offsite, target, local_path, inherited, ckpt_pages>>

\* ------------------------------------------------------------------ bounds
MaxRuns == 2
MaxLinks == 2
MaxBudget == 4

\* ------------------------------------------------------------------ URLs
None == "None"

Paths == {"", "/", "/p", "/x", "/logo.png", "/assets/e.com/logo.png",
          "/assets/e.com/p.bin"}

\* The results of urlparse over the URLs of the model.
ParsedUrls ==
    [scheme : {"https"}, netloc : {"e.com", "o.com"}, path : Paths,
     query : {""}, fragment : {"", "fig.png"}]

urlunparse(p) ==
    p.scheme \o "://" \o p.netloc \o p.path
        \o (IF p.query = "" THEN "" ELSE "?" \o p.query)
        \o (IF p.fragment = "" THEN "" ELSE "#" \o p.fragment)

AllUrls == {urlunparse(p) : p \in ParsedUrls}

IsAbsolute(s) == s \in AllUrls

\* urlparse, the inverse of urlunparse on the URLs of the model (@@ <<>> makes
\* the table an explicit function, computed once)
ParseTable == [s \in AllUrls |-> CHOOSE p \in ParsedUrls : urlunparse(p) = s] @@ <<>>

urlparse(s) == ParseTable[s]

\* the paths without a directory part below the root
RootPaths == {"", "/", "/p", "/x", "/logo.png"}

\* urljoin(url, href): an absolute href is kept; a relative one (the local path
\* an asset link was rewritten to) is resolved against a page whose path is in
\* RootPaths.
urljoin(base, href) ==
    IF IsAbsolute(href) THEN href
    ELSE LET b == urlparse(base) IN b.scheme \o "://" \o b.netloc \o "/" \o href

\* IGNORED_EXTENSIONS and ASSET_EXTENSIONS, evaluated over the hrefs and the
\* paths of the model: the match is on the whole string, fragment included.
IgnoredHrefs == {"https://e.com/s.css"}
AssetStrings ==
    {"/logo.png", "/assets/e.com/logo.png", "https://e.com/logo.png",
     "assets/e.com/logo.png", "https://e.com/assets/e.com/logo.png",
     "https://e.com/p#fig.png"}

\* os.path.splitext(...)[1] is not empty, over the paths of the model
WithExtension == {"/logo.png", "/assets/e.com/logo.png", "/assets/e.com/p.bin"}

_is_valid_href(href) == href # "" /\ href \notin IgnoredHrefs

_is_asset_link(link) == link # "" /\ link \in AssetStrings

\* _safe_asset_path (lines 198-205 and 219) and the relpath of _download_asset:
\* the rewritten reference, for a resource with a path below the root, without
\* query, whose last component is within the cap of lines 208-217
AssetRel(page, asset_url) ==
    LET u == urlparse(urljoin(page, asset_url))
        asset_path == IF u.path \in WithExtension THEN u.path ELSE u.path \o ".bin"
    IN  "assets/" \o u.netloc \o asset_path

\* str.endswith("/") and str.endswith(".md") over the strings of the model
SlashEnded == {"/"}
MdEnded == {"index.md"}

\* path.lstrip("/") over the paths of the model
RelPaths == {"index", "p", "x", "logo.png", "assets/e.com/logo.png",
             "assets/e.com/p.bin"}

lstrip(path) == CHOOSE r \in RelPaths : "/" \o r = path

\* _safe_filename_from_url, lines 49-69, for the URLs of the model: they have no
\* query, and their last component is within the cap of lines 75-86
_safe_filename_from_url(base_url, target_url) ==
    LET u_target == urlparse(target_url)
        path == IF u_target.path = "" THEN "/" ELSE u_target.path
        indexed == IF path \in SlashEnded THEN path \o "index" ELSE path
        safe_path == lstrip(indexed)
    IN  IF safe_path \in MdEnded THEN safe_path ELSE safe_path \o ".md"

\* line 331: the path of the index document, relative to output_dir
index_path == "index.md"

\* sorted() of a set of URL strings: ascending in the order of str, which is that
\* of the code points
UrlOrder ==
    <<"https://e.com", "https://e.com/", "https://e.com/assets/e.com/p.bin",
      "https://e.com/p">>

\* line 334 with sorted(..., reverse=True)
sorted_Descending(S) ==
    SelectSeq([i \in 1..Len(UrlOrder) |-> UrlOrder[Len(UrlOrder) + 1 - i]],
              LAMBDA x : x \in S)

\* line 334
sorted(S) == SelectSeq(UrlOrder, LAMBDA x : x \in S)

\* the documents of the output directory: a page document (lines 274-285) and
\* the index document with its rows (lines 332-338)
PageDoc(u) == [kind |-> "page", url |-> u, rows |-> <<>>]

IndexDoc(titles) == [kind |-> "index", url |-> None, rows |-> sorted(DOMAIN titles)]

\* ------------------------------------------------------------------ inputs
Seeds == {"https://e.com", "https://e.com/"}

Hrefs == {"https://e.com/", "https://e.com/p#fig.png", "https://o.com/x",
          "https://e.com/logo.png"}

\* lines 256-264: the href that an <a> of the page holds when line 288 reads it:
\* the one the page came with or, for an asset link whose download succeeded,
\* the relative path of the downloaded file. The downloads succeed only on the
\* pages with a path in RootPaths.
AnchorHrefs(page) ==
    Hrefs \cup (IF urlparse(page).path \in RootPaths
               THEN {AssetRel(page, h) : h \in {x \in Hrefs : _is_asset_link(x)}}
               ELSE {})

HrefStrings == UNION {AnchorHrefs(page) : page \in AllUrls}

\* the text of the <title> element of the page at u, None when it has none
TitleTag(u) == IF urlparse(u).path \in {"", "/"} THEN "Home" ELSE None

\* robots.txt policies, each as the set of paths it disallows for the user agent
Policies == {{"/p"}, {"/"}}

PageBudgets == {1, 2, MaxBudget}

SaveEvery == {1, 2}

\* ------------------------------------------------------------------ helpers
Range(s) == {s[i] : i \in 1..Len(s)}

EmptyMap == [u \in {} |-> ""]

\* list(S) of a set of strings: its elements in the set's iteration order, which
\* follows the strings' hashes; two hash orders stand for the possible ones
HashOrders ==
    {<<"https://e.com", "https://e.com/", "https://e.com/assets/e.com/p.bin",
       "https://e.com/p">>,
     <<"https://e.com/p", "https://e.com/assets/e.com/p.bin", "https://e.com/",
       "https://e.com">>}

ListsOf(S) == {SelectSeq(h, LAMBDA x : x \in S) : h \in HashOrders}

\* robots_parser after lines 104-113
RobotsInit(respect_robots, readable, policy) ==
    IF respect_robots /\ readable THEN [present |-> TRUE, disallow |-> policy]
    ELSE [present |-> FALSE]

\* robots_parser.can_fetch(user_agent, u): the path, "/" when empty, against the rules
can_fetch(parser, u) ==
    LET p == urlparse(u).path IN (IF p = "" THEN "/" ELSE p) \notin parser.disallow

\* line 170 with the gate left open
RobotsDenies_Open(parser, u) == FALSE

\* the test of lines 170 and 302
RobotsDenies(parser, u) == parser.present /\ ~can_fetch(parser, u)

\* the normalized form of lines 309-312
Normalized(parsed_new, base_scheme) ==
    urlunparse([scheme |-> IF parsed_new.scheme = "" THEN base_scheme ELSE parsed_new.scheme,
                netloc |-> parsed_new.netloc,
                path |-> IF parsed_new.path = "" THEN "/" ELSE parsed_new.path,
                query |-> parsed_new.query,
                fragment |-> ""])

\* lines 313-314 without the test against the queue
Enqueue_NoQueueTest(queue, seen, normalized) ==
    IF normalized \notin seen THEN Append(queue, normalized) ELSE queue

\* lines 313-314 without the test against the visited set
Enqueue_NoVisitedTest(queue, seen, normalized) ==
    IF normalized \notin Range(queue) THEN Append(queue, normalized) ELSE queue

\* lines 313-314 with insert(0, normalized) for append(normalized)
Enqueue_AtFront(queue, seen, normalized) ==
    IF normalized \notin seen /\ normalized \notin Range(queue)
    THEN <<normalized>> \o queue ELSE queue

\* lines 313-314
Enqueue(queue, seen, normalized) ==
    IF normalized \notin seen /\ normalized \notin Range(queue)
    THEN Append(queue, normalized) ELSE queue

\* lines 292-312 for every page and href of the model: new_url parsed, and its
\* normalized form
LinkTargets ==
    [t \in AllUrls \X HrefStrings \X {"https"} |->
        LET parsed_new == urlparse(urljoin(t[1], t[2]))
        IN  [parsed_new |-> parsed_new,
             normalized |-> Normalized(parsed_new, t[3])]] @@ <<>>

\* lines 288-314 without the robots test of lines 297-304
LinkStep_NoRobotsTest(queue, seen, parser, start_url, page, href) ==
    IF ~_is_valid_href(href) THEN queue
    ELSE LET base == urlparse(start_url)
             new == LinkTargets[<<page, href, base.scheme>>]
         IN  IF new.parsed_new.netloc # base.netloc THEN queue
             ELSE IF new.parsed_new.path \in AssetStrings THEN queue
             ELSE Enqueue(queue, seen, new.normalized)

\* lines 288-314 without the same-netloc test of lines 294-296
LinkStep_NoNetlocTest(queue, seen, parser, start_url, page, href) ==
    IF ~_is_valid_href(href) THEN queue
    ELSE LET base == urlparse(start_url)
             new == LinkTargets[<<page, href, base.scheme>>]
         IN  IF RobotsDenies(parser, new.normalized) THEN queue
             ELSE IF new.parsed_new.path \in AssetStrings THEN queue
             ELSE Enqueue(queue, seen, new.normalized)

\* one pass of the loop body of lines 288-314 for one <a>
LinkStep(queue, seen, parser, start_url, page, href) ==
    IF ~_is_valid_href(href) THEN queue
    ELSE LET base == urlparse(start_url)
             new == LinkTargets[<<page, href, base.scheme>>]
         IN  IF new.parsed_new.netloc # base.netloc THEN queue
             ELSE IF RobotsDenies(parser, new.normalized) THEN queue
             ELSE IF new.parsed_new.path \in AssetStrings THEN queue
             ELSE Enqueue(queue, seen, new.normalized)

\* the link target that line 302 turns away for one <a>, as a set
DeniedTarget(parser, start_url, page, href) ==
    LET base == urlparse(start_url)
        new == LinkTargets[<<page, href, base.scheme>>]
    IN  IF /\ _is_valid_href(href)
           /\ new.parsed_new.netloc = base.netloc
           /\ RobotsDenies(parser, new.normalized)
        THEN {new.normalized} ELSE {}

\* the link target that line 295 turns away for one <a>, as a set
OffsiteTarget(start_url, page, href) ==
    LET base == urlparse(start_url)
        new == LinkTargets[<<page, href, base.scheme>>]
    IN  IF _is_valid_href(href) /\ new.parsed_new.netloc # base.netloc
        THEN {urlunparse(new.parsed_new)} ELSE {}

\* the URL with which one <a> reaches line 313, as a list
Candidate(parser, start_url, page, href) ==
    LET base == urlparse(start_url)
        new == LinkTargets[<<page, href, base.scheme>>]
    IN  IF /\ _is_valid_href(href)
           /\ new.parsed_new.netloc = base.netloc
           /\ ~RobotsDenies(parser, new.normalized)
           /\ new.parsed_new.path \notin AssetStrings
        THEN <<new.normalized>> ELSE <<>>

\* lines 287-314 over every page of at most n <a> elements: the loop takes the
\* elements in document order, each holding one of AnchorHrefs(page); an outcome
\* is the frontier after the loop, with the link targets that lines 295 and 302
\* turned away and the URLs that reached line 313
RECURSIVE PageOutcomes(_, _, _, _, _, _)
PageOutcomes(n, queue, seen, parser, start_url, page) ==
    IF n = 0
    THEN {[to_visit |-> queue, link_denied |-> {}, offsite |-> {}, candidates |-> <<>>]}
    ELSE LET shorter == PageOutcomes(n - 1, queue, seen, parser, start_url, page)
         IN  shorter \cup
             {[to_visit |-> LinkStep(o.to_visit, seen, parser, start_url, page, href),
               link_denied |-> o.link_denied
                                 \cup DeniedTarget(parser, start_url, page, href),
               offsite |-> o.offsite \cup OffsiteTarget(start_url, page, href),
               candidates |-> o.candidates \o Candidate(parser, start_url, page, href)] :
                 o \in shorter, href \in AnchorHrefs(page)}

\* line 163 with <= for <
LoopCond_OffByOne(queue, seen, max_pages, flag) ==
    queue # <<>> /\ Cardinality(seen) <= max_pages /\ ~flag

\* line 163 without the shutdown flag
LoopCond_NoFlag(queue, seen, max_pages, flag) ==
    queue # <<>> /\ Cardinality(seen) < max_pages

\* the loop condition of line 163
LoopCond(queue, seen, max_pages, flag) ==
    queue # <<>> /\ Cardinality(seen) < max_pages /\ ~flag

\* ------------------------------------------------------------------ checkpoint
NoFile == [exists |-> FALSE]

\* json.dump of lines 151-158; list(visited) comes in the set's iteration order
Dumps(queue, seen, titles) ==
    {[exists |-> TRUE, malformed |-> FALSE, to_visit |-> queue, visited |-> l,
      discovered_titles |-> titles] : l \in ListsOf(seen)}

\* a file that is not JSON: json.load of line 131 raises
Truncated == [exists |-> TRUE, malformed |-> TRUE]

\* a file that json.load reads as a mapping whose 'to_visit' is a list of URLs
\* and whose 'visited' is a number: set() of line 133 raises
BadVisited == [exists |-> TRUE, malformed |-> TRUE, to_visit |-> <<"https://e.com/p">>]

\* the checkpoint file that the first run finds in the output directory
InitialFiles == {NoFile, BadVisited}

Memory(queue, seen, titles) ==
    [to_visit |-> queue, visited |-> seen, discovered_titles |-> titles]

Fresh(start_url) == Memory(<<start_url>>, {}, EmptyMap)

\* lines 127-137 without line 134
LoadState_NoTitles(resume, file, start_url) ==
    IF ~(resume /\ file.exists) THEN Fresh(start_url)
    ELSE IF ~file.malformed
    THEN Memory(file.to_visit, Range(file.visited), EmptyMap)
    ELSE IF file = Truncated THEN Fresh(start_url)
    ELSE Memory(file.to_visit, {}, EmptyMap)

\* lines 127-137: an exception leaves the assignments made before it in place.
\* Line 131 raises on a file that is not JSON, before any assignment; on
\* BadVisited line 132 has replaced to_visit when line 133 raises.
LoadState(resume, file, start_url) ==
    IF ~(resume /\ file.exists) THEN Fresh(start_url)
    ELSE IF ~file.malformed
    THEN Memory(file.to_visit, Range(file.visited), file.discovered_titles)
    ELSE IF file = Truncated THEN Fresh(start_url)
    ELSE Memory(file.to_visit, {}, EmptyMap)

NoSave == [valid |-> FALSE]

\* _save_state, lines 149-161, on the state (queue, seen, titles)
SaveState(queue, seen, titles) ==
    \/ /\ checkpoint' \in Dumps(queue, seen, titles)
       /\ saved' = [valid |-> TRUE, state |-> Memory(queue, seen, titles)]
    \/ /\ checkpoint' = Truncated
       /\ saved' = NoSave

\* ------------------------------------------------------------------ local paths
\* A URL as the path functions see it: the length of its netloc, the lengths of
\* the directory segments of its path, and of the last segment the length of
\* the stem and of the extension as os.path.splitext tells them apart (the
\* extension with its dot, 0 for none; an empty last segment is a path that is
\* empty or ends with "/"), whether that extension is ".md", and the length of
\* the query.
NetlocLens == {5, 253}

DirLens == {<<>>, <<3>>, <<201>>}

StemLens == {0, 1, 190, 201}

ExtLens == {0, 3, 4, 181}

QueryLens == {0, 5, 190}

Targets ==
    {t \in [netloc : NetlocLens, dirs : DirLens, stem : StemLens, ext : ExtLens,
            md : BOOLEAN, query : QueryLens] :
        /\ t.stem = 0 => t.ext = 0
        /\ t.md => t.ext = 3}

NoTarget == [netloc |-> 0, dirs |-> <<>>, stem |-> 0, ext |-> 0, md |-> FALSE, query |-> 0]

\* lines 75 and 207
max_component_len == 200

\* lines 79 and 210: the hexdigest is cut to [:10]
HashLen == 10

\* lines 80 and 211: "3 for '__'"
SepAllowance == 3

\* lines 81-82
MinAllowedPage == 16

\* lines 212-213
MinAllowedAsset == 8

Min(a, b) == IF a < b THEN a ELSE b

\* lines 46-88 on lengths: the components of the path of a page document
_safe_filename_from_url_lens(u_target) ==
    LET \* lines 47-55: "index" for an empty last segment
        stem0 == IF u_target.stem = 0 THEN 5 ELSE u_target.stem
        \* lines 58-60: "__" and the query, which holds no dot after re.sub
        plain == stem0 + u_target.ext
                   + (IF u_target.query > 0 THEN 2 + u_target.query ELSE 0)
        endswith_md == u_target.md /\ u_target.query = 0
        \* lines 63-64: from here on ".md" is the extension and the rest the name
        name == IF endswith_md THEN plain - 3 ELSE plain
        ext == 3
        allowed0 == max_component_len - ext - SepAllowance - HashLen
        allowed == IF allowed0 < MinAllowedPage THEN MinAllowedPage ELSE allowed0
        last == IF name + ext > max_component_len
                THEN Min(name, allowed) + 2 + HashLen + ext
                ELSE name + ext
    IN  u_target.dirs \o <<last>>

\* lines 198-219 on lengths: the components of the path of an asset below the
\* output directory
_safe_asset_path_lens(u) ==
    LET \* line 199: "root" for an empty path
        stem0 == IF u.stem = 0 /\ u.dirs = <<>> THEN 4 ELSE u.stem
        \* lines 200-202: "__" and the query go behind the last dot, if any
        stem1 == IF u.ext = 0 /\ u.query > 0 THEN stem0 + 2 + u.query ELSE stem0
        ext1 == IF u.ext > 0 /\ u.query > 0 THEN u.ext + 2 + u.query ELSE u.ext
        \* lines 204-205: ".bin"
        ext == IF ext1 = 0 THEN 4 ELSE ext1
        allowed0 == max_component_len - ext - SepAllowance - HashLen
        allowed == IF allowed0 < MinAllowedAsset THEN MinAllowedAsset ELSE allowed0
        last == IF stem1 + ext > max_component_len
                THEN Min(stem1, allowed) + 2 + HashLen + ext
                ELSE stem1 + ext
    IN  <<6, u.netloc>> \o u.dirs \o <<last>>

\* ------------------------------------------------------------------ state machine
Running == {"loop", "fetch", "page", "delay", "index", "final"}

Init ==
    /\ pc = "idle"
    /\ args = [start_url |-> None, max_pages |-> 0, save_every |-> 1, resume |-> FALSE]
    /\ robots_parser = [present |-> FALSE]
    /\ to_visit = <<>>
    /\ visited = {}
    /\ discovered_titles = EmptyMap
    /\ shutdown = FALSE
    /\ pages_done = 0
    /\ url = None
    /\ checkpoint \in InitialFiles
    /\ runs = 0
    /\ fetched = {}
    /\ written = {}
    /\ dequeued = EmptyMap
    /\ visited0 = {}
    /\ saved = NoSave
    /\ resumed = FALSE
    /\ final_save = FALSE
    /\ link_denied = {}
    /\ docs = EmptyMap
    /\ index_writes = 0
    /\ candidates = <<>>
    /\ offsite = {}
    /\ target = NoTarget
    /\ local_path = <<>>
    /\ inherited = {}
    /\ ckpt_pages = {}

\* The inputs of a run: the first run of an output directory takes any; a later
\* run is given the same site and options, with any page budget and resume flag.
RunInputs ==
    IF runs = 0
    THEN [start_url : Seeds, max_pages : PageBudgets, save_every : SaveEvery,
          robots : {RobotsInit(r, ok, p) : r \in BOOLEAN, ok \in BOOLEAN, p \in Policies},
          resume : BOOLEAN]
    ELSE [start_url : {args.start_url}, max_pages : PageBudgets,
          save_every : {args.save_every}, robots : {robots_parser}, resume : BOOLEAN]

\* lines 101-148: a run starts, in the output directory the earlier runs left
StartRun ==
    /\ pc \in {"idle", "done", "crashed"}
    /\ runs < MaxRuns
    /\ \E in \in RunInputs :
          LET st == LoadState(in.resume, checkpoint, in.start_url) IN
          /\ args' = [start_url |-> in.start_url, max_pages |-> in.max_pages,
                      save_every |-> in.save_every, resume |-> in.resume]
          /\ robots_parser' = in.robots
          /\ to_visit' = st.to_visit
          /\ visited' = st.visited
          /\ discovered_titles' = st.discovered_titles
          /\ visited0' = st.visited
          /\ resumed' = (in.resume /\ checkpoint.exists /\ ~checkpoint.malformed)
    /\ shutdown' = FALSE
    /\ pages_done' = 0
    /\ url' = None
    /\ runs' = runs + 1
    /\ fetched' = {}
    /\ written' = {}
    /\ dequeued' = EmptyMap
    /\ final_save' = FALSE
    /\ link_denied' = {}
    /\ candidates' = <<>>
    /\ offsite' = {}
    /\ docs' = EmptyMap
    /\ index_writes' = 0
    /\ inherited' = IF resumed' THEN ckpt_pages ELSE {}
    /\ pc' = "loop"
    /\ UNCHANGED <<checkpoint, saved, target, local_path, ckpt_pages>>

\* lines 142-144: the interrupt handler
SigintHandler ==
    /\ pc \in Running
    /\ ~shutdown
    /\ shutdown' = TRUE
    /\ UNCHANGED <<pc, args, robots_parser, to_visit, visited, discovered_titles,
                   pages_done, url, checkpoint, runs, fetched, written,
                   dequeued, visited0, saved, resumed, final_save, link_denied,
                   docs, index_writes, candidates, offsite,
                   target, local_path, inherited, ckpt_pages>>

\* lines 163-166: the loop condition holds and the next URL is popped
Dequeue ==
    /\ pc = "loop"
    /\ LoopCond(to_visit, visited, args.max_pages, shutdown)
    /\ url' = IF Head(to_visit) \in visited THEN None ELSE Head(to_visit)
    /\ to_visit' = Tail(to_visit)
    /\ dequeued' = (Head(to_visit) :>
                      (IF Head(to_visit) \in DOMAIN dequeued
                       THEN dequeued[Head(to_visit)] + 1 ELSE 1)) @@ dequeued
    /\ pc' = IF Head(to_visit) \in visited THEN "loop" ELSE "fetch"
    /\ UNCHANGED <<args, robots_parser, visited, discovered_titles, shutdown,
                   pages_done, checkpoint, runs, fetched, written, visited0,
                   saved, resumed, final_save, link_denied,
                   docs, index_writes, candidates, offsite,
                   target, local_path, inherited, ckpt_pages>>

\* line 163: the loop condition fails
ExitLoop ==
    /\ pc = "loop"
    /\ ~LoopCond(to_visit, visited, args.max_pages, shutdown)
    /\ pc' = "index"
    /\ UNCHANGED <<args, robots_parser, to_visit, visited, discovered_titles,
                   shutdown, pages_done, url, checkpoint, runs, fetched,
                   written, dequeued, visited0, saved, resumed, final_save, link_denied,
                   docs, index_writes, candidates, offsite,
                   target, local_path, inherited, ckpt_pages>>

\* lines 170-173: the robots gate denies the dequeued URL
RobotsSkip ==
    /\ pc = "fetch"
    /\ RobotsDenies(robots_parser, url)
    /\ visited' = visited \cup {url}
    /\ url' = None
    /\ pc' = "loop"
    /\ UNCHANGED <<args, robots_parser, to_visit, discovered_titles, shutdown,
                   pages_done, checkpoint, runs, fetched, written,
                   dequeued, visited0, saved, resumed, final_save, link_denied,
                   docs, index_writes, candidates, offsite,
                   target, local_path, inherited, ckpt_pages>>

\* lines 174-179 without line 178
FetchFail_NotVisited ==
    /\ pc = "fetch"
    /\ ~RobotsDenies(robots_parser, url)
    /\ fetched' = fetched \cup {url}
    /\ url' = None
    /\ pc' = "loop"
    /\ UNCHANGED <<args, robots_parser, to_visit, visited, discovered_titles, shutdown,
                   pages_done, checkpoint, runs, written, dequeued,
                   visited0, saved, resumed, final_save, link_denied,
                   docs, index_writes, candidates, offsite,
                   target, local_path, inherited, ckpt_pages>>

\* lines 174-179: session.get or raise_for_status raises
FetchFail ==
    /\ pc = "fetch"
    /\ ~RobotsDenies(robots_parser, url)
    /\ fetched' = fetched \cup {url}
    /\ visited' = visited \cup {url}
    /\ url' = None
    /\ pc' = "loop"
    /\ UNCHANGED <<args, robots_parser, to_visit, discovered_titles, shutdown,
                   pages_done, checkpoint, runs, written, dequeued,
                   visited0, saved, resumed, final_save, link_denied,
                   docs, index_writes, candidates, offsite,
                   target, local_path, inherited, ckpt_pages>>

\* lines 174-188: the page is fetched and parsed, its title recorded
FetchOk ==
    /\ pc = "fetch"
    /\ ~RobotsDenies(robots_parser, url)
    /\ discovered_titles' =
          (url :> (IF TitleTag(url) = None THEN url ELSE TitleTag(url))) @@ discovered_titles
    /\ fetched' = fetched \cup {url}
    /\ visited' = visited \cup {url}
    /\ pc' = "page"
    /\ UNCHANGED <<args, robots_parser, to_visit, shutdown, pages_done, url,
                   checkpoint, runs, written, dequeued, visited0, saved, resumed,
                   final_save, link_denied,
                   docs, index_writes, candidates, offsite,
                   target, local_path, inherited, ckpt_pages>>

\* lines 246-314: the assets are downloaded or not, the page document is
\* written and the links are enqueued
ProcessPage ==
    /\ pc = "page"
    /\ \E out \in PageOutcomes(MaxLinks, to_visit, visited, robots_parser,
                                args.start_url, url) :
          /\ to_visit' = out.to_visit
          /\ link_denied' = out.link_denied
          /\ candidates' = out.candidates
          /\ offsite' = out.offsite
    /\ written' = written \cup {url}
    /\ docs' = (_safe_filename_from_url(args.start_url, url) :> PageDoc(url)) @@ docs
    /\ pc' = "delay"
    /\ UNCHANGED <<args, robots_parser, visited, discovered_titles, shutdown,
                   pages_done, url, checkpoint, runs, fetched, dequeued, visited0,
                   saved, resumed, final_save, index_writes,
                   target, local_path, inherited, ckpt_pages>>

\* line 234 and lines 272-285: os.makedirs for an asset of the page, or
\* os.makedirs, open or write for the page document, raises; nothing catches it
PageOSError ==
    /\ pc = "page"
    /\ pc' = "crashed"
    /\ UNCHANGED <<args, robots_parser, to_visit, visited, discovered_titles,
                   shutdown, pages_done, url, checkpoint, runs, fetched, written,
                   dequeued, visited0, saved, resumed, final_save, link_denied,
                   docs, index_writes, candidates, offsite,
                   target, local_path, inherited, ckpt_pages>>

\* lines 316-328: the delay, then the periodic checkpoint
DelayAndSave ==
    /\ pc = "delay"
    /\ pages_done' = pages_done + 1
    /\ IF (pages_done + 1) % args.save_every = 0
       THEN /\ SaveState(to_visit, visited, discovered_titles)
            /\ ckpt_pages' = IF checkpoint'.malformed THEN {} ELSE written \cup inherited
       ELSE UNCHANGED <<checkpoint, saved, ckpt_pages>>
    /\ url' = None
    /\ link_denied' = {}
    /\ candidates' = <<>>
    /\ offsite' = {}
    /\ pc' = "loop"
    /\ UNCHANGED <<args, robots_parser, to_visit, visited, discovered_titles,
                   shutdown, runs, fetched, written, dequeued, visited0,
                   resumed, final_save,
                   docs, index_writes,
                   target, local_path, inherited>>

\* lines 330-338: the index document is written
WriteIndex ==
    /\ pc = "index"
    /\ docs' = (index_path :> IndexDoc(discovered_titles)) @@ docs
    /\ index_writes' = index_writes + 1
    /\ pc' = "final"
    /\ UNCHANGED <<args, robots_parser, to_visit, visited, discovered_titles,
                   shutdown, pages_done, url, checkpoint, runs, fetched,
                   written, dequeued, visited0, saved, resumed, final_save, link_denied, candidates, offsite,
                   target, local_path, inherited, ckpt_pages>>

\* line 332: open or write of the index document raises
IndexError ==
    /\ pc = "index"
    /\ pc' = "crashed"
    /\ UNCHANGED <<args, robots_parser, to_visit, visited, discovered_titles,
                   shutdown, pages_done, url, checkpoint, runs, fetched,
                   written, dequeued, visited0, saved, resumed, final_save, link_denied,
                   docs, index_writes, candidates, offsite,
                   target, local_path, inherited, ckpt_pages>>

\* lines 342-348: the final save, when the checkpoint file exists
FinalSave ==
    /\ pc = "final"
    /\ IF checkpoint.exists
       THEN /\ SaveState(to_visit, visited, discovered_titles)
            /\ final_save' = TRUE
            /\ ckpt_pages' = IF checkpoint'.malformed THEN {} ELSE written \cup inherited
       ELSE UNCHANGED <<checkpoint, saved, final_save, ckpt_pages>>
    /\ pc' = "done"
    /\ UNCHANGED <<args, robots_parser, to_visit, visited, discovered_titles,
                   shutdown, pages_done, url, runs, fetched, written,
                   dequeued, visited0, resumed, link_denied,
                   docs, index_writes, candidates, offsite,
                   target, local_path, inherited>>

Next ==
    \/ StartRun
    \/ SigintHandler
    \/ Dequeue
    \/ ExitLoop
    \/ RobotsSkip
    \/ FetchFail
    \/ FetchOk
    \/ ProcessPage
    \/ PageOSError
    \/ DelayAndSave
    \/ WriteIndex
    \/ IndexError
    \/ FinalSave

Spec == Init /\ [][Next]_vars

\* The path functions on their own: any URL of Targets, and one call.
PathInit ==
    /\ pc = "idle"
    /\ args = [start_url |-> None, max_pages |-> 0, save_every |-> 1, resume |-> FALSE]
    /\ robots_parser = [present |-> FALSE]
    /\ to_visit = <<>>
    /\ visited = {}
    /\ discovered_titles = EmptyMap
    /\ shutdown = FALSE
    /\ pages_done = 0
    /\ url = None
    /\ checkpoint = NoFile
    /\ runs = 0
    /\ fetched = {}
    /\ written = {}
    /\ dequeued = EmptyMap
    /\ visited0 = {}
    /\ saved = NoSave
    /\ resumed = FALSE
    /\ final_save = FALSE
    /\ link_denied = {}
    /\ docs = EmptyMap
    /\ index_writes = 0
    /\ candidates = <<>>
    /\ offsite = {}
    /\ target \in Targets
    /\ local_path = <<>>
    /\ inherited = {}
    /\ ckpt_pages = {}

\* line 270: the path of the page document of target
SafeFilename ==
    /\ local_path = <<>>
    /\ local_path' = _safe_filename_from_url_lens(target)
    /\ UNCHANGED <<pc, args, robots_parser, to_visit, visited, discovered_titles,
                   shutdown, pages_done, url, checkpoint, runs, fetched, written,
                   dequeued, visited0, saved, resumed, final_save, link_denied,
                   docs, index_writes, candidates, offsite, target,
                   inherited, ckpt_pages>>

\* line 233: the path of the asset target
SafeAssetPath ==
    /\ local_path = <<>>
    /\ local_path' = _safe_asset_path_lens(target)
    /\ UNCHANGED <<pc, args, robots_parser, to_visit, visited, discovered_titles,
                   shutdown, pages_done, url, checkpoint, runs, fetched, written,
                   dequeued, visited0, saved, resumed, final_save, link_denied,
                   docs, index_writes, candidates, offsite, target,
                   inherited, ckpt_pages>>

PathNext ==
    \/ SafeFilename
    \/ SafeAssetPath

PathSpec == PathInit /\ [][PathNext]_vars

\* The steps of the process itself: it runs on whenever it can, and every fetch,
\* download and write returns. Starting a run and interrupting one are the
\* operator's choice.
CrawlStep ==
    \/ Dequeue
    \/ ExitLoop
    \/ RobotsSkip
    \/ FetchFail
    \/ FetchOk
    \/ ProcessPage
    \/ PageOSError
    \/ DelayAndSave
    \/ WriteIndex
    \/ IndexError
    \/ FinalSave

\* The runs under fairness start in an output directory without a checkpoint
\* file; the later ones find what the earlier ones saved.
FairInit == Init /\ checkpoint = NoFile

FairSpec == FairInit /\ [][Next]_vars /\ WF_vars(CrawlStep)

\* ------------------------------------------------------------------ properties
InLoop == {"loop", "fetch", "page", "delay"}

Ended == {"done", "crashed"}

NoDuplicates(queue) == \A i, j \in 1..Len(queue) : queue[i] = queue[j] => i = j

Denied(u) == robots_parser.present /\ ~can_fetch(robots_parser, u)

Canonical(u) == Normalized(urlparse(u), "https")

Room == IF args.max_pages > Cardinality(visited0)
        THEN args.max_pages - Cardinality(visited0) ELSE 0

\* C1: a URL in the visited set is never fetched again and never appended to
\* the frontier again, the visited set never loses an element during a run,
\* and at every loop boundary the frontier holds no URL twice and no visited URL.
C1_NoRevisit ==
    /\ [][/\ \A u \in fetched' \ fetched : u \notin visited
          /\ pc \in Running =>
                /\ visited \subseteq visited'
                /\ \A u \in Range(to_visit') \ Range(to_visit) :
                      u \notin visited /\ u \notin visited']_vars
    /\ [](pc = "loop" => NoDuplicates(to_visit) /\ Range(to_visit) \cap visited = {})

\* a resumed run, at a loop boundary, that has visited more and has URLs pending
C1_Witness ==
    /\ pc = "loop"
    /\ resumed
    /\ visited0 # {}
    /\ written # {}
    /\ Cardinality(visited) > Cardinality(visited0) + 1
    /\ to_visit # <<>>

\* C2: every run that leaves the main loop and ends has called the final
\* _save_state, whether or not a checkpoint file existed before.
C2_FinalCheckpoint == pc = "done" => final_save

\* C3: a run resumed from a checkpoint starts, before its first dequeue, with
\* the frontier (same order), the visited set and the title index that were in
\* memory when that checkpoint was saved.
C3_RoundTrip ==
    (pc = "loop" /\ resumed /\ DOMAIN dequeued = {}) =>
        /\ saved.valid
        /\ to_visit = saved.state.to_visit
        /\ visited = saved.state.visited
        /\ discovered_titles = saved.state.discovered_titles

\* a run resumed from a checkpoint with pending URLs, visited URLs and titles
C3_Witness ==
    /\ pc = "loop"
    /\ resumed
    /\ DOMAIN dequeued = {}
    /\ Len(to_visit) >= 2
    /\ Cardinality(visited) >= 2
    /\ DOMAIN discovered_titles # {}

\* C4: with a robots policy in force, no URL it denies is requested by the page
\* fetch, and every denied URL that was dequeued is in the visited set once
\* its iteration has ended.
C4_RobotsObeyed ==
    robots_parser.present =>
        /\ \A u \in fetched : can_fetch(robots_parser, u)
        /\ \A u \in DOMAIN dequeued :
              (~can_fetch(robots_parser, u) /\ u # url) => u \in visited

\* a denied URL was dequeued and, unfetched, is in the visited set
C4_Witness ==
    /\ pc = "loop"
    /\ \E u \in DOMAIN dequeued : Denied(u) /\ u \in visited /\ u \notin fetched

\* C5 as stated: after a page's links are processed, every same-origin link
\* target the policy denies is in the visited set.
C5_DeniedLinksVisited == pc = "delay" => link_denied \subseteq visited

\* C5 as amended: a URL denied at dequeue time is added to the visited set and
\* not fetched; a link target denied at link discovery is not appended to the
\* frontier, and link discovery adds nothing to the visited set.
C5_DeniedLinksDropped ==
    [][/\ (pc = "fetch" /\ Denied(url)) =>
             /\ pc' \in {"fetch", "loop"}
             /\ fetched' = fetched
             /\ pc' = "loop" => url \in visited'
       /\ (pc = "page" /\ pc' = "delay") =>
             /\ visited' = visited
             /\ \A u \in link_denied' :
                   u \in Range(to_visit') => u \in Range(to_visit)]_vars

\* a page with a denied link target has had its links processed
C5_Witness ==
    /\ pc = "delay"
    /\ link_denied # {}
    /\ link_denied \cap (visited \cup Range(to_visit)) = {}

\* C6: no two URLs with the same canonical form are both in the frontier or
\* the visited set, nor both fetched.
C6_CanonicalIdentity ==
    /\ \A u, v \in Range(to_visit) \cup visited : Canonical(u) = Canonical(v) => u = v
    /\ \A u, v \in fetched : Canonical(u) = Canonical(v) => u = v

\* C7: a URL is dequeued for fetching only while the visited count is below
\* max_pages, and a run adds at most max(0, max_pages - |visited at start|)
\* URLs to the visited set and writes at most that many page documents.
C7_Budget ==
    pc \in Running \cup Ended =>
        /\ visited0 \subseteq visited
        /\ Cardinality(visited \ visited0) <= Room
        /\ Cardinality(written) <= Room
        /\ pc = "fetch" => Cardinality(visited) < args.max_pages

\* a resumed run used up its budget, a failed or denied URL counting, and left
\* URLs pending
C7_Witness ==
    /\ pc = "done"
    /\ resumed
    /\ visited0 # {}
    /\ ~shutdown
    /\ to_visit # <<>>
    /\ Cardinality(visited \ visited0) = Room
    /\ Cardinality(written) < Room

\* C8: no URL is dequeued twice in a run, and the crawl loop, once entered, is
\* always left.
C8_Terminates ==
    /\ [](\A u \in DOMAIN dequeued : dequeued[u] <= 1)
    /\ (pc \in InLoop) ~> (pc \notin InLoop)

\* the loop ended on an empty frontier with budget left and no interrupt
C8_Witness ==
    /\ pc = "index"
    /\ to_visit = <<>>
    /\ ~shutdown
    /\ Cardinality(visited) < args.max_pages
    /\ Cardinality(written) >= 2

\* C9: the interrupt handler changes nothing but the flag; once the flag is
\* set no URL is dequeued, no URL but the one in progress is fetched, that URL
\* is in the visited set when its iteration ends, and the loop is left at the
\* next loop boundary.
C9_Cooperative ==
    [][/\ (pc \in Running /\ shutdown' # shutdown) =>
             /\ shutdown'
             /\ UNCHANGED <<pc, args, robots_parser, to_visit, visited,
                            discovered_titles, pages_done, url, checkpoint>>
       /\ (pc \in Running /\ shutdown) =>
             /\ dequeued' = dequeued
             /\ fetched' \subseteq fetched \cup {url}
             /\ pc = "loop" => pc' = "index"
             /\ (pc \in {"fetch", "page", "delay"} /\ pc' = "loop") => url \in visited']_vars

\* the flag was set while a URL was in progress, and its page was written
C9_Witness ==
    /\ pc = "delay"
    /\ shutdown
    /\ url \in written
    /\ url \in visited
    /\ to_visit # <<>>

\* C10: a failure to create the directory of, or to write, a page document or
\* an asset never ends the run.
C10_WriteFailureSurvived == ~(pc = "crashed" /\ url # None)

\* C11: when the page fetch of a dequeued URL fails, the URL is added to the
\* visited set, no document is written, no title is recorded, the frontier is
\* left as it was and the process is back at the loop condition; a run started
\* fresh whose seed fails ends with visited = {seed} and an index document
\* without rows as the only document.
C11_FetchFailure ==
    /\ [][(pc = "fetch" /\ fetched' # fetched /\ pc' # "page") =>
             /\ pc' = "loop"
             /\ url \in visited'
             /\ written' = written
             /\ docs' = docs
             /\ discovered_titles' = discovered_titles
             /\ to_visit' = to_visit]_vars
    /\ [](\A u \in fetched \ written :
             (pc \in {"loop", "index", "final", "done"}) =>
                 u \in visited /\ u \notin DOMAIN discovered_titles)
    /\ []((/\ pc \in {"final", "done"}
           /\ ~args.resume
           /\ fetched = {args.start_url}
           /\ written = {}) =>
              /\ visited = {args.start_url}
              /\ DOMAIN docs = {index_path}
              /\ docs[index_path].rows = <<>>)

C11_Witness ==
    /\ pc = "done"
    /\ ~args.resume
    /\ fetched = {args.start_url}
    /\ written = {}
    /\ visited = {args.start_url}
    /\ index_writes = 1
    /\ docs[index_path].rows = <<>>

\* C12: a run that is asked to resume and finds a malformed checkpoint file
\* starts from the fresh state: frontier = [seed], visited set and title index
\* empty. (Code: the frontier of BadVisited is applied.)
C12_MalformedIgnored ==
    (/\ pc = "loop"
     /\ DOMAIN dequeued = {}
     /\ args.resume
     /\ checkpoint.exists
     /\ checkpoint.malformed) =>
        /\ to_visit = <<args.start_url>>
        /\ visited = {}
        /\ discovered_titles = EmptyMap

SameOrigin(u) == urlparse(u).netloc = urlparse(args.start_url).netloc

\* C13: no step of a run appends to the frontier a URL whose network location
\* differs from the seed's, and in a run started without resume every URL that
\* is dequeued or requested by the page fetch has the seed's network location.
C13_SameOrigin ==
    /\ [][(pc \in Running) =>
             (\A u \in Range(to_visit') \ Range(to_visit) : SameOrigin(u))]_vars
    /\ [](~args.resume => \A u \in DOMAIN dequeued \cup fetched : SameOrigin(u))

C13_Witness ==
    /\ pc = "delay"
    /\ ~args.resume
    /\ offsite # {}
    /\ candidates # <<>>
    /\ Range(candidates) \subseteq Range(to_visit)
    /\ offsite \cap Range(to_visit) = {}

\* the targets of the <a> elements of a page that line 261 takes for assets: the
\* target of the href as the page came, and of the local path line 264 puts in
AssetAnchorTargets(page) ==
    {LinkTargets[<<page, h, "https">>].normalized :
        h \in {x \in AnchorHrefs(page) :
                  \E a \in Hrefs : _is_asset_link(a) /\ x \in {a, AssetRel(page, a)}}}

\* C14: link discovery appends to the frontier neither the target of an <a>
\* that line 261 took for an asset nor its rewritten local reference.
C14_AssetsNeverEnqueued ==
    [][(pc = "page") =>
          (\A u \in Range(to_visit') \ Range(to_visit) : u \notin AssetAnchorTargets(url))]_vars

\* C15: every output of a run has its own path: when the run ends, the path
\* derived for each page this run wrote still holds that page's document, so no
\* other page document and no index document was written over it.
C15_OwnPath ==
    (pc \in {"final", "done"}) =>
        \A u \in written :
            docs[_safe_filename_from_url(args.start_url, u)] = PageDoc(u)

\* C16: with delay > 0 the delay of lines 316-323 is applied after every
\* dequeued URL whatever its outcome: the process comes back to the loop
\* condition from a URL in progress only through the delay step, so no two page
\* fetch requests follow each other without one.
C16_DelayAfterEveryUrl ==
    [][(pc \in {"fetch", "page", "delay"} /\ pc' = "loop") => (pc = "delay")]_vars

\* the elements of s that are not in S, each once, in the order of their first
\* occurrence
RECURSIVE FirstNew(_, _)
FirstNew(s, S) ==
    IF s = <<>> THEN <<>>
    ELSE IF Head(s) \in S THEN FirstNew(Tail(s), S)
    ELSE <<Head(s)>> \o FirstNew(Tail(s), S \cup {Head(s)})

\* C17: the frontier is first in, first out: a dequeue takes the head of the
\* frontier and leaves the rest in order, the links of a page are appended
\* behind every pending URL in document order, and no other step of the loop
\* touches the frontier.
C17_Fifo ==
    /\ [][(pc = "loop" /\ dequeued' # dequeued) =>
             /\ to_visit # <<>>
             /\ to_visit' = Tail(to_visit)
             /\ Head(to_visit) \in DOMAIN dequeued'
             /\ url' \in {None, Head(to_visit)}
             /\ (\A u \in DOMAIN dequeued : dequeued'[u] >= dequeued[u])]_vars
    /\ [][(pc = "page" /\ pc' = "delay") =>
             (to_visit' = to_visit \o FirstNew(candidates', visited \cup Range(to_visit)))]_vars
    /\ [][(pc \in InLoop /\ pc' \in InLoop /\ dequeued' = dequeued /\ pc # "page") =>
             (to_visit' = to_visit)]_vars

C17_Witness ==
    /\ pc = "delay"
    /\ Len(to_visit) = 2
    /\ to_visit[1] \notin Range(candidates)
    /\ to_visit[2] \in Range(candidates)
    /\ Cardinality(DOMAIN dequeued) = 2

\* C18: every component of the local path derived for a page document or for
\* an asset is at most max_component_len long.
C18_ComponentsCapped ==
    \A i \in 1..Len(local_path) : local_path[i] <= max_component_len

\* the last component of the path of a page document is at most
\* max_component_len long
C18_PageLastCapped ==
    (local_path # <<>> /\ local_path[1] # 6) =>
        local_path[Len(local_path)] <= max_component_len

\* the place of a URL in the order of Python's string comparison
Pos(u) == CHOOSE i \in 1..Len(UrlOrder) : UrlOrder[i] = u

\* C19: the index document is written once per run, after the loop has exited
\* and on each of its exits (frontier empty, budget reached, shutdown flag); it
\* has one row per URL of the title index, in ascending order of the URLs, and
\* every URL it lists is in the visited set and had its page document written by
\* this run or by a run this one was resumed from.
C19_IndexOnce ==
    /\ [](pc \in InLoop \cup {"index"} => index_writes = 0)
    /\ [][(pc \in Running /\ index_writes' # index_writes) =>
             (pc = "index" /\ index_writes' = index_writes + 1)]_vars
    /\ [][(pc = "loop" /\ pc' # "loop"
              /\ ~LoopCond(to_visit, visited, args.max_pages, shutdown)) =>
             (pc' = "index")]_vars
    /\ []((pc \in {"final", "done"}) =>
             LET rows == docs[index_path].rows IN
             /\ index_writes = 1
             /\ docs[index_path].kind = "index"
             /\ Range(rows) = DOMAIN discovered_titles
             /\ Len(rows) = Cardinality(DOMAIN discovered_titles)
             /\ \A i, j \in 1..Len(rows) : i < j => Pos(rows[i]) < Pos(rows[j])
             /\ Range(rows) \subseteq visited
             /\ Range(rows) \subseteq written \cup inherited)

C19_Witness ==
    /\ pc = "done"
    /\ index_writes = 1
    /\ shutdown
    /\ to_visit # <<>>
    /\ resumed
    /\ Len(docs[index_path].rows) >= 2
    /\ Range(docs[index_path].rows) \cap written # {}
    /\ Range(docs[index_path].rows) \ written # {}

\* the URLs the run holds: pending, visited, or in progress
Held == Range(to_visit) \cup visited \cup ({url} \ {None})

\* a URL that was appended to the frontier stays pending, in progress or
\* visited for the rest of the run, and every checkpoint that is saved is taken
\* at a loop boundary and holds all of them
C20_AppendedKept ==
    /\ [][(pc \in Running /\ pc' \in Running) =>
             (Held \subseteq Range(to_visit') \cup visited' \cup ({url'} \ {None}))]_vars
    /\ [](pc \in {"loop", "index", "final", "done"} => url = None)
    /\ [][(checkpoint' # checkpoint /\ ~checkpoint'.malformed) =>
             /\ url' = None
             /\ Held \subseteq Range(checkpoint'.to_visit) \cup Range(checkpoint'.visited)]_vars

\* C20: no discovered URL is lost: at every loop boundary and in every
\* checkpoint that is saved, each URL that was appended to the frontier in this
\* run, and the seed, is in the frontier or in the visited set.
C20_NothingLost ==
    /\ C20_AppendedKept
    /\ [](pc \in {"loop", "index", "final", "done"} =>
             args.start_url \in Range(to_visit) \cup visited)
    /\ [][(checkpoint' # checkpoint /\ ~checkpoint'.malformed) =>
             (args.start_url \in Range(checkpoint'.to_visit) \cup Range(checkpoint'.visited))]_vars

====
